---- MODULE Spec2Model ----
(***************************************************************************)
(* Model of src/blockchain.py: the in-memory ledger (Blockchain), its      *)
(* proof-of-work miner and the Flask request handlers that drive it.       *)
(* The server runs with threaded=True, so every request is served by its   *)
(* own thread and the handlers interleave at every access to the shared    *)
(* objects (blockchain.chain, blockchain.pending_transactions, metrics,    *)
(* event_log).  No lock appears anywhere in the source.                    *)
(*                                                                         *)
(* One action is one access to shared state together with the local        *)
(* computation around it.  list.append, list.copy and attribute rebinding  *)
(* are single steps; `metrics[k] += 1` is a read step and a write step.    *)
(***************************************************************************)
EXTENDS Integers, Sequences, FiniteSets, TLC

\* ------------------------------------------------------------------ bounds
\* Number of request threads (one request per thread, as Flask spawns them).
MaxThreads == 3
\* Values time.time() may return.
MaxTime == 2
\* Number of hex digits kept of a digest.
DigestLen == 5

\* ------------------------------------------------------- program constants
\* self.difficulty
difficulty == 4

Threads == 1..MaxThreads
Timestamps == 1..MaxTime

\* The keys new_transaction requires of the JSON body.
required == {"sender", "recipient", "amount"}

\* JSON bodies a client may POST to /transactions/new.
Bodies ==
    { [sender |-> "A", recipient |-> "B", amount |-> 10],
      [sender |-> "A", recipient |-> "B"] }

\* The routes of the Flask app.
Routes == {"new_transaction", "mine", "full_chain"}

NoBody == [none |-> TRUE]

VARIABLES
    chain,                 \* blockchain.chain
    pending_transactions,  \* blockchain.pending_transactions
    metrics,               \* the global metrics dict
    event_log,             \* the global event_log list
    pc,                    \* each request thread's position
    route,                 \* the route a thread serves
    values,                \* request.get_json() of a thread
    reg,                   \* the value read by the thread's pending `+= 1`
    last_block,            \* mine_block's local last_block
    block,                 \* mine_block's local block (None: NoneBlock)
    index,                 \* new_transaction's local index
    status,                \* HTTP status answered (0: not answered yet)
    overlapped,            \* history: another ledger call ran during t's
    at_start               \* history: the ledger when t's mine_block started

vars == <<chain, pending_transactions, metrics, event_log, pc, route, values,
          reg, last_block, block, index, status, overlapped, at_start>>

shared == <<chain, pending_transactions, metrics, event_log>>

\* ------------------------------------------------------------------ hashing
\* Absent 'hash' key of a block under construction.
NoHash == <<>>

\* None, as returned by mine_block and as the initial value of the locals.
NoneBlock ==
    [index |-> 0, timestamp |-> 0, transactions |-> <<>>, proof |-> 0,
     previous_hash |-> <<>>, hash |-> NoHash]

RECURSIVE HexValue(_)
\* Numeric content of a hex string (a sequence of digits 0..15).
HexValue(h) ==
    IF h = <<>> THEN 0
    ELSE (16 * HexValue(SubSeq(h, 1, Len(h) - 1)) + h[Len(h)]) % 256

NameCode(s) == IF s = "A" THEN 1 ELSE IF s = "B" THEN 2 ELSE 3

\* json.dumps of one transaction dict: every key of the dict contributes.
TxCode(tx) ==
    (NameCode(tx.sender) + 3 * NameCode(tx.recipient) + 5 * (tx.amount % 16)
     + 7 * tx.timestamp) % 256

RECURSIVE TxsCode(_)
\* json.dumps of the transaction list: order matters.
TxsCode(txs) ==
    IF txs = <<>> THEN 0
    ELSE (13 * TxsCode(SubSeq(txs, 1, Len(txs) - 1)) + TxCode(txs[Len(txs)]) + 1) % 256

\* json.dumps(block_copy, sort_keys=True): the canonical serialisation of the
\* fields index, previous_hash, proof, timestamp, transactions ('hash' popped).
block_string(b) ==
    (3 * b.index + 7 * HexValue(b.previous_hash) + b.proof + 5 * b.timestamp
     + 11 * TxsCode(b.transactions)) % 256

\* hashlib.sha256(...).hexdigest(), abstracted: a deterministic digest of
\* DigestLen hex digits of the serialisation.
sha256_hexdigest(n) ==
    [k \in 1..DigestLen |-> IF k < DigestLen THEN (4 * n) % 16 ELSE n % 16]

hash_block(b) == sha256_hexdigest(block_string(b))

\* computed_hash.startswith('0' * self.difficulty)
startswith_zeros(h) ==
    /\ Len(h) >= difficulty
    /\ \A k \in 1..difficulty : h[k] = 0

\* ------------------------------------------------------------------- ledger
\* Mutant of genesis_block: the hash is computed before proof is set to 1.
genesis_block_HashBeforeProof ==
    LET g == [index |-> 1, timestamp |-> 1, transactions |-> <<>>, proof |-> 0,
              previous_hash |-> <<0>>, hash |-> NoHash]
    IN  [g EXCEPT !.hash = hash_block(g), !.proof = 1]

\* create_genesis_block: the block appended to the empty chain.
genesis_block ==
    LET g == [index |-> 1, timestamp |-> 1, transactions |-> <<>>, proof |-> 1,
              previous_hash |-> <<0>>, hash |-> NoHash]
    IN  [g EXCEPT !.hash = hash_block(g)]

get_last_block == chain[Len(chain)]

\* at_start of a thread that has not called mine_block.
NotStarted == [tip |-> NoneBlock, pool |-> <<>>, len |-> 0]

Init ==
    /\ chain = <<genesis_block>>
    /\ pending_transactions = <<>>
    /\ metrics = [transactions_received |-> 0, blocks_mined |-> 0,
                  requests_count |-> 0]
    /\ event_log = <<"genesis">>
    /\ pc = [t \in Threads |-> "idle"]
    /\ route = [t \in Threads |-> "none"]
    /\ values = [t \in Threads |-> NoBody]
    /\ reg = [t \in Threads |-> 0]
    /\ last_block = [t \in Threads |-> NoneBlock]
    /\ block = [t \in Threads |-> NoneBlock]
    /\ index = [t \in Threads |-> 0]
    /\ status = [t \in Threads |-> 0]
    /\ overlapped = [t \in Threads |-> FALSE]
    /\ at_start = [t \in Threads |-> NotStarted]

locals == <<route, values, reg, last_block, block, index, status>>

\* The positions between the first and the last shared access of a call of
\* add_transaction or mine_block.
MidCall(p) ==
    p \in {"add_transaction_return", "mine_block_tip", "mine_block_build",
           "proof_of_work", "mine_block_append", "mine_block_clear"}

\* History only: overlapped[t] becomes TRUE once thread t and another thread
\* are both inside a call of add_transaction or mine_block; at_start[t] is the
\* chain tip, the chain length and the pool at the first step of t's
\* mine_block call, kept as long as no call has overlapped it.  No action
\* reads either.
RecordOverlap ==
    /\ overlapped' =
          [t \in Threads |->
              \/ overlapped[t]
              \/ /\ MidCall(pc'[t])
                 /\ \E u \in Threads \ {t} : MidCall(pc'[u])]
    /\ at_start' =
          [t \in Threads |->
              IF overlapped'[t]
                 THEN NotStarted
                 ELSE IF pc[t] = "mine" /\ pc'[t] # "mine"
                         THEN [tip |-> chain[Len(chain)],
                               pool |-> pending_transactions,
                               len |-> Len(chain)]
                         ELSE at_start[t]]

\* A request arrives, Flask hands it to a fresh thread, and
\* before_request_func loads metrics['requests_count'].  Threads are
\* interchangeable, so they are started in numeric order.
Request(t) ==
    /\ pc[t] = "idle"
    /\ \A u \in Threads : u < t => pc[u] # "idle"
    /\ \E r \in Routes :
          /\ route' = [route EXCEPT ![t] = r]
          /\ IF r = "new_transaction"
                THEN \E v \in Bodies : values' = [values EXCEPT ![t] = v]
                ELSE values' = values
    /\ reg' = [reg EXCEPT ![t] = metrics.requests_count]
    /\ pc' = [pc EXCEPT ![t] = "before_request_store"]
    /\ UNCHANGED <<shared, last_block, block, index, status>>
    /\ RecordOverlap

\* ---- before_request_func: the store of metrics['requests_count'] += 1
BeforeRequestStore(t) ==
    /\ pc[t] = "before_request_store"
    /\ metrics' = [metrics EXCEPT !.requests_count = reg[t] + 1]
    /\ reg' = [reg EXCEPT ![t] = 0]
    /\ pc' = [pc EXCEPT ![t] = route[t]]
    /\ UNCHANGED <<chain, pending_transactions, event_log, route, values,
                   last_block, block, index, status>>
    /\ RecordOverlap

\* ---- new_transaction
\* all(k in values for k in required)
has_required(v) == \A k \in required : k \in DOMAIN v

\* Mutant of NewTransactionMissing: counts the submission before rejecting it.
NewTransactionMissing_Counts(t) ==
    /\ pc[t] = "new_transaction"
    /\ ~has_required(values[t])
    /\ event_log' = Append(event_log, "missing")
    /\ metrics' = [metrics EXCEPT !.transactions_received = @ + 1]
    /\ status' = [status EXCEPT ![t] = 400]
    /\ values' = [values EXCEPT ![t] = NoBody]
    /\ pc' = [pc EXCEPT ![t] = "done"]
    /\ UNCHANGED <<chain, pending_transactions, route, reg, last_block, block,
                   index>>
    /\ RecordOverlap

\* The 400 branch: log the error and answer.
NewTransactionMissing(t) ==
    /\ pc[t] = "new_transaction"
    /\ ~has_required(values[t])
    /\ event_log' = Append(event_log, "missing")
    /\ status' = [status EXCEPT ![t] = 400]
    /\ values' = [values EXCEPT ![t] = NoBody]
    /\ pc' = [pc EXCEPT ![t] = "done"]
    /\ UNCHANGED <<chain, pending_transactions, metrics, route, reg,
                   last_block, block, index>>
    /\ RecordOverlap

\* The transaction dict add_transaction builds; id stands for the identity of
\* the dict object (one per call) and is no key of the dict.
transaction(t, v, ts) ==
    [id |-> t, sender |-> v.sender, recipient |-> v.recipient,
     amount |-> v.amount, timestamp |-> ts]

\* Mutant of AddTransactionAppend: rebinds the pool to a list of the new
\* transaction alone instead of appending to it.
AddTransactionAppend_Overwrite(t) ==
    /\ pc[t] = "new_transaction"
    /\ has_required(values[t])
    /\ \E ts \in Timestamps :
          pending_transactions' = <<transaction(t, values[t], ts)>>
    /\ pc' = [pc EXCEPT ![t] = "add_transaction_return"]
    /\ UNCHANGED <<chain, metrics, event_log, locals>>
    /\ RecordOverlap

\* Blockchain.add_transaction: self.pending_transactions.append(transaction)
AddTransactionAppend(t) ==
    /\ pc[t] = "new_transaction"
    /\ has_required(values[t])
    /\ \E ts \in Timestamps :
          pending_transactions' =
              Append(pending_transactions, transaction(t, values[t], ts))
    /\ pc' = [pc EXCEPT ![t] = "add_transaction_return"]
    /\ UNCHANGED <<chain, metrics, event_log, locals>>
    /\ RecordOverlap

\* Blockchain.add_transaction: return len(self.chain) + 1
AddTransactionReturn(t) ==
    /\ pc[t] = "add_transaction_return"
    /\ index' = [index EXCEPT ![t] = Len(chain) + 1]
    /\ pc' = [pc EXCEPT ![t] = "received_read"]
    /\ UNCHANGED <<shared, route, values, reg, last_block, block, status>>
    /\ RecordOverlap

\* metrics['transactions_received'] += 1
ReceivedRead(t) ==
    /\ pc[t] = "received_read"
    /\ reg' = [reg EXCEPT ![t] = metrics.transactions_received]
    /\ pc' = [pc EXCEPT ![t] = "received_store"]
    /\ UNCHANGED <<shared, route, values, last_block, block, index, status>>
    /\ RecordOverlap

ReceivedStore(t) ==
    /\ pc[t] = "received_store"
    /\ metrics' = [metrics EXCEPT !.transactions_received = reg[t] + 1]
    /\ reg' = [reg EXCEPT ![t] = 0]
    /\ pc' = [pc EXCEPT ![t] = "new_transaction_log"]
    /\ UNCHANGED <<chain, pending_transactions, event_log, route, values,
                   last_block, block, index, status>>
    /\ RecordOverlap

\* event_log.append("New transaction: ..."), then the 201 answer.
NewTransactionLog(t) ==
    /\ pc[t] = "new_transaction_log"
    /\ event_log' = Append(event_log, "transaction")
    /\ status' = [status EXCEPT ![t] = 201]
    /\ values' = [values EXCEPT ![t] = NoBody]
    /\ pc' = [pc EXCEPT ![t] = "done"]
    /\ UNCHANGED <<chain, pending_transactions, metrics, route, reg,
                   last_block, block, index>>
    /\ RecordOverlap

\* ---- mine / Blockchain.mine_block
\* Mutant of MineBlockCheck: the emptiness test is dropped.
MineBlockCheck_NoCheck(t) ==
    /\ pc[t] = "mine"
    /\ pc' = [pc EXCEPT ![t] = "mine_block_tip"]
    /\ UNCHANGED <<shared, locals>>
    /\ RecordOverlap

\* if not self.pending_transactions: return None
MineBlockCheck(t) ==
    /\ pc[t] = "mine"
    /\ IF pending_transactions = <<>>
          THEN pc' = [pc EXCEPT ![t] = "mine_none"]
          ELSE pc' = [pc EXCEPT ![t] = "mine_block_tip"]
    /\ UNCHANGED <<shared, locals>>
    /\ RecordOverlap

\* last_block = self.get_last_block()
MineBlockTip(t) ==
    /\ pc[t] = "mine_block_tip"
    /\ last_block' = [last_block EXCEPT ![t] = get_last_block]
    /\ pc' = [pc EXCEPT ![t] = "mine_block_build"]
    /\ UNCHANGED <<shared, route, values, reg, block, index, status>>
    /\ RecordOverlap

\* Mutant of candidate: previous_hash is copied from the tip's previous_hash.
candidate_PreviousOfTip(lb, ts, txs) ==
    [index |-> lb.index + 1, timestamp |-> ts, transactions |-> txs,
     proof |-> 0, previous_hash |-> lb.previous_hash, hash |-> NoHash]

\* The candidate dict of mine_block.
candidate(lb, ts, txs) ==
    [index |-> lb.index + 1, timestamp |-> ts, transactions |-> txs,
     proof |-> 0, previous_hash |-> lb.hash, hash |-> NoHash]

\* block = {...}: time.time() and self.pending_transactions.copy()
MineBlockBuild(t) ==
    /\ pc[t] = "mine_block_build"
    /\ \E ts \in Timestamps :
          block' = [block EXCEPT
                       ![t] = candidate(last_block[t], ts, pending_transactions)]
    /\ pc' = [pc EXCEPT ![t] = "proof_of_work"]
    /\ UNCHANGED <<shared, route, values, reg, last_block, index, status>>
    /\ RecordOverlap

\* Mutant of ProofOfWork: the loop body runs once and the condition is not
\* tested again.
ProofOfWork_OneIncrement(t) ==
    /\ pc[t] = "proof_of_work"
    /\ IF startswith_zeros(hash_block(block[t]))
          THEN block' = block
          ELSE block' = [block EXCEPT ![t].proof = @ + 1]
    /\ pc' = [pc EXCEPT ![t] = "mine_block_append"]
    /\ UNCHANGED <<shared, route, values, reg, last_block, index, status>>
    /\ RecordOverlap

\* Mutant of ProofOfWork: the search tries the proofs 0 and 1 over and over.
ProofOfWork_TwoProofs(t) ==
    /\ pc[t] = "proof_of_work"
    /\ IF startswith_zeros(hash_block(block[t]))
          THEN /\ pc' = [pc EXCEPT ![t] = "mine_block_append"]
               /\ block' = block
          ELSE /\ block' = [block EXCEPT ![t].proof = (@ + 1) % 2]
               /\ pc' = pc
    /\ UNCHANGED <<shared, route, values, reg, last_block, index, status>>
    /\ RecordOverlap

\* proof_of_work: one test of the while condition; proof += 1 while it fails.
ProofOfWork(t) ==
    /\ pc[t] = "proof_of_work"
    /\ IF startswith_zeros(hash_block(block[t]))
          THEN /\ pc' = [pc EXCEPT ![t] = "mine_block_append"]
               /\ block' = block
          ELSE /\ block' = [block EXCEPT ![t].proof = @ + 1]
               /\ pc' = pc
    /\ UNCHANGED <<shared, route, values, reg, last_block, index, status>>
    /\ RecordOverlap

\* Mutant of MineBlockAppend: the block is appended as it left the search,
\* without its hash.
MineBlockAppend_BeforeHash(t) ==
    /\ pc[t] = "mine_block_append"
    /\ block' = [block EXCEPT ![t].hash = hash_block(block[t])]
    /\ chain' = Append(chain, block[t])
    /\ pc' = [pc EXCEPT ![t] = "mine_block_clear"]
    /\ UNCHANGED <<pending_transactions, metrics, event_log, route, values,
                   reg, last_block, index, status>>
    /\ RecordOverlap

\* Mutant of MineBlockAppend: the block is stored over the tip.
MineBlockAppend_ReplacesTip(t) ==
    /\ pc[t] = "mine_block_append"
    /\ LET b == [block[t] EXCEPT !.hash = hash_block(block[t])]
       IN  /\ block' = [block EXCEPT ![t] = b]
           /\ chain' = [chain EXCEPT ![Len(chain)] = b]
    /\ pc' = [pc EXCEPT ![t] = "mine_block_clear"]
    /\ UNCHANGED <<pending_transactions, metrics, event_log, route, values,
                   reg, last_block, index, status>>
    /\ RecordOverlap

\* block['hash'] = self.hash_block(block); self.chain.append(block)
MineBlockAppend(t) ==
    /\ pc[t] = "mine_block_append"
    /\ LET b == [block[t] EXCEPT !.hash = hash_block(block[t])]
       IN  /\ block' = [block EXCEPT ![t] = b]
           /\ chain' = Append(chain, b)
    /\ pc' = [pc EXCEPT ![t] = "mine_block_clear"]
    /\ UNCHANGED <<pending_transactions, metrics, event_log, route, values,
                   reg, last_block, index, status>>
    /\ RecordOverlap

\* Mutant of MineBlockClear: the pool is not cleared.
MineBlockClear_KeepsPool(t) ==
    /\ pc[t] = "mine_block_clear"
    /\ pending_transactions' = pending_transactions
    /\ last_block' = [last_block EXCEPT ![t] = NoneBlock]
    /\ pc' = [pc EXCEPT ![t] = "mined_read"]
    /\ UNCHANGED <<chain, metrics, event_log, route, values, reg, block, index,
                   status>>
    /\ RecordOverlap

\* self.pending_transactions = []; return block
MineBlockClear(t) ==
    /\ pc[t] = "mine_block_clear"
    /\ pending_transactions' = <<>>
    /\ last_block' = [last_block EXCEPT ![t] = NoneBlock]
    /\ pc' = [pc EXCEPT ![t] = "mined_read"]
    /\ UNCHANGED <<chain, metrics, event_log, route, values, reg, block, index,
                   status>>
    /\ RecordOverlap

\* metrics['blocks_mined'] += 1
MinedRead(t) ==
    /\ pc[t] = "mined_read"
    /\ reg' = [reg EXCEPT ![t] = metrics.blocks_mined]
    /\ pc' = [pc EXCEPT ![t] = "mined_store"]
    /\ UNCHANGED <<shared, route, values, last_block, block, index, status>>
    /\ RecordOverlap

MinedStore(t) ==
    /\ pc[t] = "mined_store"
    /\ metrics' = [metrics EXCEPT !.blocks_mined = reg[t] + 1]
    /\ reg' = [reg EXCEPT ![t] = 0]
    /\ pc' = [pc EXCEPT ![t] = "mine_log"]
    /\ UNCHANGED <<chain, pending_transactions, event_log, route, values,
                   last_block, block, index, status>>
    /\ RecordOverlap

\* event_log.append("Block i mined with n transactions."), then the 200 answer.
MineLog(t) ==
    /\ pc[t] = "mine_log"
    /\ event_log' = Append(event_log, "mined")
    /\ status' = [status EXCEPT ![t] = 200]
    /\ pc' = [pc EXCEPT ![t] = "done"]
    /\ UNCHANGED <<chain, pending_transactions, metrics, route, values, reg,
                   last_block, block, index>>
    /\ RecordOverlap

\* Mutant of MineNone: blocks_mined is counted although nothing was mined.
MineNone_Counts(t) ==
    /\ pc[t] = "mine_none"
    /\ event_log' = Append(event_log, "nothing_to_mine")
    /\ metrics' = [metrics EXCEPT !.blocks_mined = @ + 1]
    /\ status' = [status EXCEPT ![t] = 400]
    /\ pc' = [pc EXCEPT ![t] = "done"]
    /\ UNCHANGED <<chain, pending_transactions, route, values, reg,
                   last_block, block, index>>
    /\ RecordOverlap

\* The else branch of mine: block is None.
MineNone(t) ==
    /\ pc[t] = "mine_none"
    /\ event_log' = Append(event_log, "nothing_to_mine")
    /\ status' = [status EXCEPT ![t] = 400]
    /\ pc' = [pc EXCEPT ![t] = "done"]
    /\ UNCHANGED <<chain, pending_transactions, metrics, route, values, reg,
                   last_block, block, index>>
    /\ RecordOverlap

\* ---- full_chain: reads only.
FullChain(t) ==
    /\ pc[t] = "full_chain"
    /\ status' = [status EXCEPT ![t] = 200]
    /\ pc' = [pc EXCEPT ![t] = "done"]
    /\ UNCHANGED <<shared, route, values, reg, last_block, block, index>>
    /\ RecordOverlap

Next ==
    \E t \in Threads :
        \/ Request(t)
        \/ BeforeRequestStore(t)
        \/ NewTransactionMissing(t)
        \/ AddTransactionAppend(t)
        \/ AddTransactionReturn(t)
        \/ ReceivedRead(t)
        \/ ReceivedStore(t)
        \/ NewTransactionLog(t)
        \/ MineBlockCheck(t)
        \/ MineBlockTip(t)
        \/ MineBlockBuild(t)
        \/ ProofOfWork(t)
        \/ MineBlockAppend(t)
        \/ MineBlockClear(t)
        \/ MinedRead(t)
        \/ MinedStore(t)
        \/ MineLog(t)
        \/ MineNone(t)
        \/ FullChain(t)

Spec == Init /\ [][Next]_vars

\* A step of thread t inside Blockchain.mine_block, past the emptiness test.
MineBlockStep(t) ==
    \/ MineBlockTip(t)
    \/ MineBlockBuild(t)
    \/ ProofOfWork(t)
    \/ MineBlockAppend(t)
    \/ MineBlockClear(t)

\* The server once the last thread's request, a submission A -> B 10, has
\* been answered 201: its transaction is pending, the other threads have not
\* started.
InitSubmitted ==
    /\ chain = <<genesis_block>>
    /\ pending_transactions =
          <<transaction(MaxThreads, [sender |-> "A", recipient |-> "B",
                                     amount |-> 10], 1)>>
    /\ metrics = [transactions_received |-> 1, blocks_mined |-> 0,
                  requests_count |-> 1]
    /\ event_log = <<"genesis", "transaction">>
    /\ pc = [t \in Threads |-> IF t = MaxThreads THEN "done" ELSE "idle"]
    /\ route = [t \in Threads |->
                   IF t = MaxThreads THEN "new_transaction" ELSE "none"]
    /\ values = [t \in Threads |-> NoBody]
    /\ reg = [t \in Threads |-> 0]
    /\ last_block = [t \in Threads |-> NoneBlock]
    /\ block = [t \in Threads |-> NoneBlock]
    /\ index = [t \in Threads |-> IF t = MaxThreads THEN 2 ELSE 0]
    /\ status = [t \in Threads |-> IF t = MaxThreads THEN 201 ELSE 0]
    /\ overlapped = [t \in Threads |-> FALSE]
    /\ at_start = [t \in Threads |-> NotStarted]

\* Every request thread is scheduled again and again: a thread inside
\* mine_block is never blocked (the code takes no lock) and eventually runs.
FairSpec ==
    /\ InitSubmitted
    /\ [][Next]_vars
    /\ \A t \in Threads : WF_vars(MineBlockStep(t))

\* ------------------------------------------------- the ledger after a race
RECURSIVE proof_of_work(_)
\* proof_of_work run to its end: proof += 1 until the hash passes.
proof_of_work(b) ==
    IF startswith_zeros(hash_block(b))
       THEN b
       ELSE proof_of_work([b EXCEPT !.proof = @ + 1])

\* The block a mine_block call appends that read tip lb, time ts and pool txs.
mine_block(lb, ts, txs) ==
    LET b == proof_of_work(candidate(lb, ts, txs))
    IN  [b EXCEPT !.hash = hash_block(b)]

\* The chain after one submission (transaction object id) and two mine_block
\* calls that both read the genesis block as tip and the one-transaction pool
\* before either appended.
RacedChain(id) ==
    LET tx == transaction(id, [sender |-> "A", recipient |-> "B", amount |-> 10], 1)
    IN  <<genesis_block, mine_block(genesis_block, 1, <<tx>>),
          mine_block(genesis_block, 2, <<tx>>)>>

\* The server once those three requests have been answered, before the
\* requests of Threads arrive.
InitAfterRace ==
    /\ chain = RacedChain(0)
    /\ pending_transactions = <<>>
    /\ metrics = [transactions_received |-> 1, blocks_mined |-> 2,
                  requests_count |-> 3]
    /\ event_log = <<"genesis", "transaction", "mined", "mined">>
    /\ pc = [t \in Threads |-> "idle"]
    /\ route = [t \in Threads |-> "none"]
    /\ values = [t \in Threads |-> NoBody]
    /\ reg = [t \in Threads |-> 0]
    /\ last_block = [t \in Threads |-> NoneBlock]
    /\ block = [t \in Threads |-> NoneBlock]
    /\ index = [t \in Threads |-> 0]
    /\ status = [t \in Threads |-> 0]
    /\ overlapped = [t \in Threads |-> FALSE]
    /\ at_start = [t \in Threads |-> NotStarted]

SpecAfterRace == InitAfterRace /\ [][Next]_vars

\* ------------------------------------------------------------ vocabulary
\* Thread t's request is being served.
InFlight(t) == pc[t] \notin {"idle", "done"}

\* No request is being served.
Quiescent == \A t \in Threads : ~InFlight(t)

\* add_transaction has appended thread t's transaction to the pool.
Appended(t) ==
    /\ route[t] = "new_transaction"
    /\ \/ pc[t] \in {"add_transaction_return", "received_read",
                     "received_store", "new_transaction_log"}
       \/ pc[t] = "done" /\ status[t] = 201

\* The transaction of thread t is in the pending pool.
InPool(t) ==
    \E i \in DOMAIN pending_transactions : pending_transactions[i].id = t

\* The number of occurrences of thread t's transaction in block b.
Occurrences(b, t) ==
    Cardinality({j \in DOMAIN b.transactions : b.transactions[j].id = t})

\* The transaction of thread t is in some block of the chain.
InChain(t) == \E i \in DOMAIN chain : Occurrences(chain[i], t) > 0

\* (C1) No transaction is lost: once add_transaction has appended it, a
\* transaction is in the pending pool or in a block of the chain.
C1_NoTransactionLost ==
    \A t \in Threads : Appended(t) => InPool(t) \/ InChain(t)

\* (C2) At most one of the miners that read the same tip appends: no two
\* blocks of the chain share an index or a previous_hash.
C2_AtMostOneMiner ==
    \A i, j \in DOMAIN chain :
        i # j => /\ chain[i].index # chain[j].index
                 /\ chain[i].previous_hash # chain[j].previous_hash

\* (C3) Chain linkage: the chain starts with the genesis block (index 1) and
\* every later block names its predecessor's hash and has the next index.
C3_ChainLinkage ==
    /\ chain[1].index = 1
    /\ chain[1].previous_hash = <<0>>
    /\ \A i \in 2..Len(chain) :
          /\ chain[i].previous_hash = chain[i - 1].hash
          /\ chain[i].index = chain[i - 1].index + 1

\* (C4) In every state, intermediate ones included, no transaction is both in
\* the pending pool and in a block of the chain.
C4_NeverInBoth == \A t \in Threads : ~(InPool(t) /\ InChain(t))

\* (C5) Whenever no request is being served, every transaction of the pending
\* pool is absent from every block of the chain.
C5_QuiescentDisjoint ==
    Quiescent => \A t \in Threads : InPool(t) => ~InChain(t)

\* A quiescent state with transactions both pending and mined.
C5_Witness ==
    /\ Quiescent
    /\ pending_transactions # <<>>
    /\ \E t \in Threads : InChain(t)

\* Thread m's call of mine_block has returned a block.
Mined(m) ==
    /\ route[m] = "mine"
    /\ pc[m] \in {"mined_read", "mined_store", "mine_log", "done"}
    /\ block[m] # NoneBlock

\* The submitters whose add_transaction returned before block b was appended:
\* add_transaction returned b's index, the chain being one block shorter.
ReturnedBefore(b) ==
    {u \in Threads : route[u] = "new_transaction" /\ index[u] = b.index}

\* Thread m is the only miner so far and no call overlapped its mine_block.
SingleMiner(m) ==
    /\ Mined(m)
    /\ ~overlapped[m]
    /\ \A u \in Threads \ {m} : route[u] # "mine"

\* (C6) N add_transaction calls, interleaved in any way, that all return
\* before the only mine_block call starts: the mined block holds exactly those
\* N transactions, each once, and the pool holds none of them afterwards (it
\* is empty unless a later submission has been appended).
C6_SubmitThenMine ==
    \A m \in Threads :
        SingleMiner(m) =>
            /\ \A u \in Threads :
                  Occurrences(block[m], u) =
                      (IF u \in ReturnedBefore(block[m]) THEN 1 ELSE 0)
            /\ \A u \in ReturnedBefore(block[m]) : ~InPool(u)
            /\ (\A u \in Threads : Appended(u) => u \in ReturnedBefore(block[m]))
                  => pending_transactions = <<>>

\* Two submissions that overlapped each other, then the only mine_block call.
C6_Witness ==
    \E m \in Threads :
        /\ SingleMiner(m)
        /\ Cardinality(ReturnedBefore(block[m])) = 2
        /\ \A u \in ReturnedBefore(block[m]) : overlapped[u]
        /\ pending_transactions = <<>>

\* Thread t takes a step.
Moves(t) == pc'[t] # pc[t]

\* (C7) A mine request that finds the pool empty: mine_block returns None, the
\* handler answers 400, and no step of the call changes the chain, the pool or
\* blocks_mined.
C7_EmptyMine ==
    [][\A t \in Threads :
          /\ (pc[t] = "mine" /\ pending_transactions = <<>> /\ Moves(t)) =>
                /\ pc'[t] = "mine_none"
                /\ block'[t] = NoneBlock
                /\ chain' = chain
                /\ pending_transactions' = pending_transactions
                /\ metrics'.blocks_mined = metrics.blocks_mined
          /\ (pc[t] = "mine_none" /\ Moves(t)) =>
                /\ pc'[t] = "done"
                /\ status'[t] = 400
                /\ block'[t] = NoneBlock
                /\ chain' = chain
                /\ pending_transactions' = pending_transactions
                /\ metrics'.blocks_mined = metrics.blocks_mined]_vars

\* A mine request answered 400.
C7_Witness ==
    \E t \in Threads : route[t] = "mine" /\ pc[t] = "done" /\ status[t] = 400

\* (C8) A successful mine_block leaves the pool empty when it returns; the pool
\* stays empty until an add_transaction appends; and a mine_block call that
\* finds it empty returns None and leaves the chain as it is.  So a second
\* mine with no submission in between reports nothing to mine.
C8_MineTwice ==
    [][/\ \A t \in Threads :
             (pc[t] = "mine_block_clear" /\ Moves(t)) =>
                 /\ pending_transactions' = <<>>
                 /\ chain' = chain
       /\ (pending_transactions = <<>> /\ pending_transactions' # <<>>) =>
             \E t \in Threads :
                 /\ pc[t] = "new_transaction"
                 /\ pc'[t] = "add_transaction_return"
       /\ \A t \in Threads :
             (pc[t] = "mine" /\ pending_transactions = <<>> /\ Moves(t)) =>
                 /\ pc'[t] = "mine_none"
                 /\ Len(chain') = Len(chain)]_vars

\* One submission, a successful mine, then a mine answered 400; the chain has
\* the genesis block and the one mined block.
C8_Witness ==
    \E t, u \in Threads :
        /\ Mined(t) /\ pc[t] = "done" /\ ~overlapped[t]
        /\ route[u] = "mine" /\ pc[u] = "done" /\ status[u] = 400
        /\ Cardinality({w \in Threads : route[w] = "new_transaction"}) = 1
        /\ Len(chain) = 2

\* The body lacks one of sender, recipient, amount.
MissingField(v) == \E k \in {"sender", "recipient", "amount"} : k \notin DOMAIN v

\* (C9) A POST /transactions/new whose body lacks a required field is answered
\* 400 and changes neither the pool, the chain nor transactions_received.
C9_MissingRejected ==
    [][\A t \in Threads :
          (pc[t] = "new_transaction" /\ MissingField(values[t]) /\ Moves(t)) =>
              /\ pc'[t] = "done"
              /\ status'[t] = 400
              /\ pending_transactions' = pending_transactions
              /\ chain' = chain
              /\ metrics'.transactions_received = metrics.transactions_received]_vars

\* A submission answered 400 while another one is pending in the pool.
C9_Witness ==
    \E t \in Threads :
        /\ route[t] = "new_transaction" /\ pc[t] = "done" /\ status[t] = 400
        /\ pending_transactions # <<>>

\* (C10) No step decreases transactions_received, blocks_mined or
\* requests_count.
C10_CountersMonotonic ==
    [][/\ metrics'.transactions_received >= metrics.transactions_received
       /\ metrics'.blocks_mined >= metrics.blocks_mined
       /\ metrics'.requests_count >= metrics.requests_count]_vars

\* (C11) No increment is lost: whenever no request is being served,
\* requests_count is the number of requests received and transactions_received
\* is the number of submissions answered 201.
C11_NoLostIncrement ==
    Quiescent =>
        /\ metrics.requests_count =
              Cardinality({t \in Threads : pc[t] = "done"})
        /\ metrics.transactions_received =
              Cardinality({t \in Threads : route[t] = "new_transaction"
                                             /\ status[t] = 201})

\* What a returned, non-overlapped mine_block call has done to the ledger.
C12_Returned ==
    \A m \in Threads :
        (Mined(m) /\ ~overlapped[m]) =>
            /\ block[m].index = at_start[m].tip.index + 1
            /\ block[m].previous_hash = at_start[m].tip.hash
            /\ block[m].transactions = at_start[m].pool
            /\ Len(chain) > at_start[m].len
            /\ chain[at_start[m].len] = at_start[m].tip
            /\ chain[at_start[m].len + 1] = block[m]

\* (C12) A successful mine_block call that no other call overlaps appends
\* exactly one block: its index is the previous tip's index + 1, its
\* previous_hash the previous tip's hash, its transactions the pool at the
\* start of the call, in submission order.
C12_MineAlone ==
    /\ []C12_Returned
    /\ [][\A m \in Threads :
             (route[m] = "mine" /\ Moves(m) /\ ~overlapped'[m]) =>
                 IF pc[m] = "mine_block_append"
                    THEN chain' = Append(chain, block'[m])
                    ELSE chain' = chain]_vars

\* Fresh ledger, one submission A -> B 10, one mine: block 2 on the genesis
\* block with that transaction.
C12_Witness ==
    \E m \in Threads :
        /\ Mined(m) /\ ~overlapped[m]
        /\ at_start[m].len = 1
        /\ block[m].index = 2
        /\ block[m].previous_hash = chain[1].hash
        /\ Len(block[m].transactions) = 1
        /\ block[m].transactions[1].sender = "A"
        /\ block[m].transactions[1].recipient = "B"
        /\ block[m].transactions[1].amount = 10

\* (C13) Proof-of-work validity and minimality: the hash of every mined block
\* of the chain starts with difficulty zeros, and with any smaller proof the
\* hash of the same block does not.
C13_ProofOfWork ==
    \A i \in 2..Len(chain) :
        /\ startswith_zeros(hash_block(chain[i]))
        /\ \A p \in 0..(chain[i].proof - 1) :
              ~startswith_zeros(hash_block([chain[i] EXCEPT !.proof = p]))

\* A mined block in the chain whose search had to pass over the proofs 0, 1
\* and 2.
C13_Witness ==
    \E i \in 2..Len(chain) :
        /\ chain[i].proof = 3
        /\ chain[i].transactions # <<>>
        /\ startswith_zeros(chain[i].hash)

\* (C14) Hash integrity of the visible chain: every block of the chain carries
\* a hash, equal to the hash of its other fields, and no block of the chain is
\* one that a miner is still building or searching a proof for.
C14_HashIntegrity ==
    \A i \in DOMAIN chain :
        /\ chain[i].hash # NoHash
        /\ chain[i].hash = hash_block(chain[i])
        /\ \A t \in Threads :
              pc[t] \in {"proof_of_work", "mine_block_append"} =>
                  chain[i] # block[t]

\* A mined block is in the chain while another miner is in the middle of its
\* search.
C14_Witness ==
    /\ Len(chain) >= 2
    /\ \E t \in Threads :
          /\ pc[t] = "proof_of_work"
          /\ block[t].proof > 0
          /\ block[t].index = chain[Len(chain)].index

\* (C15) The chain is append-only: every step keeps the chain as a prefix of
\* the new chain, so no block is removed, reordered or modified (its
\* transaction list included) and the length never decreases.
C15_AppendOnly ==
    [][/\ Len(chain') >= Len(chain)
       /\ SubSeq(chain', 1, Len(chain)) = chain]_vars

\* A block was mined, the pool was cleared and a later submission appended to
\* it: the block still holds the transactions it was mined with.
C15_Witness ==
    /\ Len(chain) >= 2
    /\ chain[2].transactions # <<>>
    /\ pending_transactions # <<>>
    /\ \E m \in Threads : Mined(m)
    /\ \A t \in Threads : InPool(t) => ~InChain(t)

\* No request has been received since the construction of the Blockchain.
Fresh == \A t \in Threads : pc[t] = "idle"

\* (C16) Genesis invariant: a freshly constructed Blockchain has a chain of
\* exactly one block, with index 1, no transactions, proof 1, previous_hash
\* "0" and the hash of its other fields as hash, and an empty pending pool.
C16_Genesis ==
    Fresh =>
        /\ Len(chain) = 1
        /\ chain[1].index = 1
        /\ chain[1].transactions = <<>>
        /\ chain[1].proof = 1
        /\ chain[1].previous_hash = <<0>>
        /\ chain[1].hash # NoHash
        /\ chain[1].hash = hash_block(chain[1])
        /\ pending_transactions = <<>>

\* The ledger as the constructor leaves it: the genesis block, hashed.
C16_Witness ==
    /\ Fresh
    /\ Len(chain) = 1
    /\ Len(chain[1].hash) = DigestLen
    /\ chain[1].timestamp \in Timestamps

\* (C17) add_transaction appends the new transaction at the end of the pool,
\* leaves the chain as it is and returns len(chain) + 1; when no other call
\* overlaps the submission, the first block that includes the transaction has
\* the returned value as index.
C17_ReturnedIndex ==
    \A a \in Threads :
        (Appended(a) /\ pc[a] # "add_transaction_return" /\ ~overlapped[a]) =>
            \A i \in DOMAIN chain :
                (/\ Occurrences(chain[i], a) > 0
                 /\ \A j \in 1..(i - 1) : Occurrences(chain[j], a) = 0)
                    => chain[i].index = index[a]

\* (C18) Mining termination: under weak fairness of the miner's steps, a
\* mine_block call that found the pool non-empty eventually appends its block
\* and returns it; the search is left only with a proof whose hash passes the
\* difficulty test, and no step of the search appends to the chain or clears
\* the pool.
C18_MiningTerminates ==
    /\ \A t \in Threads :
          (pc[t] = "mine_block_tip") ~>
              (/\ pc[t] = "mined_read"
               /\ block[t] # NoneBlock
               /\ \E i \in DOMAIN chain : chain[i] = block[t])
    /\ [][\A t \in Threads :
             (pc[t] = "proof_of_work" /\ (Moves(t) \/ block'[t] # block[t])) =>
                 /\ chain' = chain
                 /\ pending_transactions' = pending_transactions
                 /\ Moves(t) => startswith_zeros(hash_block(block[t]))]_vars

\* A mine_block call whose search took more than one proof has returned.
C18_Witness ==
    \E t \in Threads : Mined(t) /\ block[t].proof >= 1 /\ pc[t] = "mined_read"

\* (C19) No transaction is included twice in the chain: each submitted
\* transaction occurs in at most one block and at most once in that block.
C19_IncludedOnce ==
    \A t \in Threads :
        /\ \A i \in DOMAIN chain : Occurrences(chain[i], t) <= 1
        /\ \A i, j \in DOMAIN chain :
              (i # j /\ Occurrences(chain[i], t) > 0) =>
                  Occurrences(chain[j], t) = 0

\* (C20) Every block of the chain but the genesis block has a non-empty
\* transaction list.
C20_NoEmptyBlock ==
    \A i \in 2..Len(chain) : chain[i].transactions # <<>>
====
